---- MODULE Spec2Model ----
(***************************************************************************)
(* Model of the news_processor Lambda (src/lambda/news_processor):         *)
(* the retrying summarizer, the batch loop of process_articles with its    *)
(* pacing sleeps, the write-back, the notification dispatch and the        *)
(* result of lambda_handler.  Spec is one invocation; SpecRuns is a        *)
(* sequence of invocations, one after another, on the same table;          *)
(* SpecOverlap is two invocations that overlap (news_processor_async       *)
(* starts the processor without waiting for it); SpecLive is one           *)
(* invocation with the fairness its thread and its timed calls give;       *)
(* SpecRender is the summary block of a notification, as built by          *)
(* send_slack_notification and by sns_to_slack's format_message.           *)
(*                                                                         *)
(* Time values are Python floats.  A float is modelled with a mantissa of  *)
(* MantissaBits bits and round-to-nearest-even; the value v is held as the *)
(* integer v * Unit, Unit = 2^MantissaBits, so that random.random()        *)
(* returns k / Unit for k in 0 .. Unit-1 exactly as CPython returns        *)
(* k / 2^53.                                                               *)
(*                                                                         *)
(* The store is the DynamoDB table (STORAGE_TYPE defaults to 'dynamodb').  *)
(* MAX_RETRIES is int(os.environ[...]) and is not validated: -1 stands for *)
(* the negative settings, which all make the loop test of line 81 false.   *)
(***************************************************************************)
EXTENDS Integers, Sequences, FiniteSets, TLC

VARIABLES
    MAX_RETRIES,              \* module-level configuration, line 20
    BATCH_SIZE,               \* module-level configuration, line 21
    SLACK_WEBHOOK_URL,        \* TRUE iff the webhook is configured, line 17
    SNS_TOPIC_ARN,            \* TRUE iff the topic is configured, line 18
    news_table,               \* the item store: id -> stored record
    pc,                       \* position of the invocation
    unprocessed_articles,     \* the backlog fetched by process_articles
    i,                        \* start index of the current batch (0-based)
    batch,                    \* the current batch
    j,                        \* 1-based position in the current batch
    retry_count,              \* summarize_article_with_bedrock local
    summary,                  \* value returned by the summarizer
    articles_with_summaries,  \* notification payload under construction
    sleepFor,                 \* duration of the time.sleep in progress, 0 if none
    invokes,                  \* invoke_model calls of the current summarize call
    sleeps,                   \* backoff sleeps of the current summarize call
    outcomes,                 \* backend answers of the current summarize call, in order
    batches,                  \* every batch formed so far, in order
    nDone,                    \* items whose summarize and write-back are finished
    intraInBatch,             \* 0.5 pauses taken in the current batch
    intraTotal,               \* 0.5 pauses taken in the run
    interTotal,               \* inter-batch pauses taken in the run
    batchesEnded,             \* batches whose line-456 test has been evaluated
    slackSends,               \* urlopen calls made on the webhook
    snsPublishes,             \* sns_client.publish calls made
    notifyResult,             \* value returned by the dispatch function called, "none" if none
    dispatched,               \* the payloads handed to a dispatch function, in order
    published,                \* the messages handed to sns_client.publish, in order
    slackOutcome,             \* outcome of the webhook send: "none", "ok", "failed"
    snsOutcome,               \* outcome of the publish: "none", "ok", "failed"
    slackCalls,               \* calls of send_slack_notification
    notConfigured,            \* TRUE iff a "No ... configured" message was printed
    updates,                  \* write-back attempts of the run: [id, ok], in order
    scanFailed,               \* TRUE iff the scan of the run raised
    run,                      \* number of the invocation, from 1
    processedAtStart,         \* ids stored as processed when the invocation began
    result,                   \* value returned by lambda_handler, NoResult before
    calls,                    \* ids handed to summarize_article_with_bedrock, in order
    writes,                   \* successful update_item calls on the table: [id, summary], in order
    suspended,                \* the variables of a second invocation while the other one runs
    received,                 \* the summary text handed to a message builder
    rendered                  \* the text the builder put in the summary block

vars == <<MAX_RETRIES, BATCH_SIZE, SLACK_WEBHOOK_URL, SNS_TOPIC_ARN, news_table,
          pc, unprocessed_articles, i, batch, j, retry_count, summary,
          articles_with_summaries, sleepFor, invokes, sleeps, outcomes,
          batches, nDone, intraInBatch, intraTotal, interTotal, batchesEnded,
          slackSends, snsPublishes, notifyResult, dispatched, published,
          slackOutcome, snsOutcome, slackCalls, notConfigured, updates, calls, writes, scanFailed, run, processedAtStart,
          result, calls, writes, suspended, received, rendered>>

cfgVars == <<MAX_RETRIES, BATCH_SIZE, SLACK_WEBHOOK_URL, SNS_TOPIC_ARN>>
sideVars == <<suspended, received, rendered>>
localVars == <<pc, unprocessed_articles, i, batch, j, retry_count, summary,
               articles_with_summaries, sleepFor, invokes, sleeps, outcomes,
               batches, nDone, intraInBatch, intraTotal, interTotal, batchesEnded,
               slackSends, snsPublishes, notifyResult, dispatched, published,
               slackOutcome, snsOutcome, slackCalls, notConfigured, updates,
               scanFailed, run, processedAtStart, result, calls>>
notifyVars == <<slackSends, snsPublishes, notifyResult, dispatched, published,
                slackOutcome, snsOutcome, slackCalls, notConfigured>>
runVars == <<run, processedAtStart, result>>
paceVars == <<intraInBatch, intraTotal, interTotal, batchesEnded>>
sumVars == <<retry_count, invokes, sleeps, outcomes>>

-----------------------------------------------------------------------------
(* Bounds *)

MaxItems == 3          \* items in the store
MaxRetriesCap == 2     \* largest configured MAX_RETRIES
MaxBatch == 2          \* largest configured BATCH_SIZE
MantissaBits == 4      \* precision of the modelled float
MaxRuns == 2           \* invocations of the Lambda, one after another
MaxRunItems == 2       \* items in the store when several invocations are followed
RunsMaxRetries == 1    \* configured MAX_RETRIES when several invocations are followed
MaxOverlapItems == 2   \* items in the store when two invocations overlap
OverlapMaxRetries == 1 \* configured MAX_RETRIES when two invocations overlap
MaxSummaryLen == 3500  \* longest summary handed to a message builder
ShortSummaryLen == 100 \* a short summary handed to a message builder
LenWindow == 50        \* summary lengths this far around the limit are all tried

-----------------------------------------------------------------------------
(* Floats *)

RECURSIVE Pow2(_)
Pow2(n) == IF n <= 0 THEN 1 ELSE 2 * Pow2(n - 1)

Unit == Pow2(MantissaBits)

RECURSIVE ShiftOf(_, _)
ShiftOf(n, s) == IF n \div Pow2(s) < Unit THEN s ELSE ShiftOf(n, s + 1)

\* round the exact value n / Unit to the nearest float, ties to even
RoundFloat(n) ==
    LET s == ShiftOf(n, 0)
        q == n \div Pow2(s)
        rem == n % Pow2(s)
        half == Pow2(s - 1)
        up == (s > 0) /\ (rem > half \/ (rem = half /\ q % 2 = 1))
    IN  IF s = 0 THEN n ELSE (IF up THEN q + 1 ELSE q) * Pow2(s)

\* random.random(): k / Unit, 0 <= k < Unit
RandomValues == 0 .. (Unit - 1)

\* random.uniform(a, b) == a + (b - a) * random(), for integers a < b
uniform(a, b, k) == RoundFloat(a * Unit + RoundFloat((b - a) * k))

-----------------------------------------------------------------------------
(* Values *)

Min(a, b) == IF a < b THEN a ELSE b

\* Python values a summary can be.  mentions: the numbers the text contains.
Str(kind, nums) == [type |-> "str", kind |-> kind, mentions |-> nums]
NoneValue == [type |-> "NoneType", kind |-> "None", mentions |-> {}]
Absent == [type |-> "absent", kind |-> "absent", mentions |-> {}]

NoContentText == Str("No content available for summarization.", {})
GeneratedText == Str("generated", {})
ExhaustedText == Str("Error generating summary after N retries", {MAX_RETRIES})
ErrorText == Str("Error generating summary", {})

\* fault variant: every ClientError is retried
RetryableCodes_AnyClientError ==
    {"ThrottlingException", "ServiceQuotaExceeded", "TooManyRequestsException",
     "AccessDeniedException"}

\* line 169: the error codes the summarizer retries
RetryableCodes == {"ThrottlingException", "ServiceQuotaExceeded", "TooManyRequestsException"}

\* ClientError codes of the backend: the rate-limit class and one other code
RateLimitCodes == {"ThrottlingException", "ServiceQuotaExceeded", "TooManyRequestsException"}
OtherCodes == {"AccessDeniedException"}
\* what bedrock_runtime.invoke_model and the parsing of its response can do:
\* answer, raise ClientError with a code, raise anything else
BackendOutcomes == {"ok", "exception"} \cup RateLimitCodes \cup OtherCodes

\* the kind of answer the backend gave, as the log of the call records it
OutcomeClass(outcome) ==
    IF outcome = "ok" THEN "ok"
    ELSE IF outcome \in RateLimitCodes THEN "rate_limit"
    ELSE "other_failure"

base_delay == 1

\* line 81: while retry_count <= MAX_RETRIES
LoopGuard(rc) == rc <= MAX_RETRIES

\* fault variant: the counter is not advanced
NextRetryCount_Stuck(rc) == rc

\* line 170: retry_count += 1
NextRetryCount(rc) == rc + 1

\* fault variant: the budget test is off by one
BudgetExhausted_OffByOne(rc) == rc >= MAX_RETRIES

\* line 172: if retry_count > MAX_RETRIES
BudgetExhausted(rc) == rc > MAX_RETRIES

\* line 177: jitter = random.uniform(1, 5)
Jitter(k) == uniform(1, 5, k)

\* line 457: batch_delay = random.uniform(5, 15)
BatchDelay(k) == uniform(5, 15, k)

\* line 453: time.sleep(0.5)
IntraPause == Unit \div 2

\* fault variant: the slice stops one element early
BatchSlice_Short(articles, from) ==
    SubSeq(articles, from + 1, Min(from + BATCH_SIZE, Len(articles)) - 1)

\* line 426: unprocessed_articles[i:i+BATCH_SIZE]
BatchSlice(articles, from) ==
    SubSeq(articles, from + 1, Min(from + BATCH_SIZE, Len(articles)))

\* variant: the range stops one batch early
MoreBatches_SkipsLast(from, total) == from + BATCH_SIZE < total

\* line 425: range(0, total_articles, BATCH_SIZE) yields the index from
MoreBatches(from, total) == from < total

\* line 452: if len(batch) > 1
IntraPauseDue(b) == Len(b) > 1

\* fault variant: the comparison admits equality
InterPauseDue_Inclusive(from, total) == from + BATCH_SIZE <= total

\* line 456: if i + BATCH_SIZE < total_articles
InterPauseDue(from, total) == from + BATCH_SIZE < total

\* fault variant: the exponent is one too large
BackoffDelay_ExponentOff(rc, jitter) == RoundFloat(Pow2(rc + 1) * base_delay * Unit + jitter)

\* line 178: (2 ** retry_count) * base_delay + jitter, an int plus a float
BackoffDelay(rc, jitter) == RoundFloat(Pow2(rc) * base_delay * Unit + jitter)

RetriesValues == {-1} \cup (0 .. MaxRetriesCap)

Article(id) == [id |-> id, content |-> news_table[id].content]

\* variant: a scan without the filter on processed
RECURSIVE ScanFrom_Unfiltered(_)
ScanFrom_Unfiltered(id) ==
    IF id > Len(news_table) THEN <<>>
    ELSE <<Article(id)>> \o ScanFrom_Unfiltered(id + 1)

RECURSIVE ScanFrom(_)
ScanFrom(id) ==
    IF id > Len(news_table) THEN <<>>
    ELSE (IF news_table[id].processed = FALSE THEN <<Article(id)>> ELSE <<>>)
         \o ScanFrom(id + 1)

\* the tables collect_articles can have filled: every item unprocessed
ItemsUpTo(m) ==
    UNION {[1 .. n -> [content : {"", "text"}, processed : {FALSE},
                       summary : {Absent}, processed_at : {FALSE}]] : n \in 0 .. m}

StoredItems == ItemsUpTo(MaxItems)

\* lambda_handler has not returned yet
NoResult == [returned |-> FALSE, keys |-> {}, statusCode |-> 0, error |-> FALSE,
             wrapped |-> FALSE, articles_processed |-> 0, articles |-> <<>>]

\* the variables of an invocation that has not begun
NotStarted == [pc |-> "absent"]

\* a text is a sequence of characters and a character is a number; no summary
\* has been handed to a message builder, and no block has been built
NoSummary == [given |-> FALSE, text |-> <<>>]
NoBlock == [by |-> "none", text |-> <<>>]

\* the summary of a given length whose n-th character is the character n
TextOf(len) == [n \in 1 .. len |-> n]

\* line 292: the length above which send_slack_notification cuts a summary
SummaryLimit == 2900

\* sns_to_slack, line 110: the length above which format_message cuts
ForwarderLimit == 2900

\* "..." (line 293); 0 is the character "."
TruncationMarker == <<0, 0, 0>>

\* variant: a summary of exactly the limit is cut too
SlackSummaryText_CutsAtLimit(text) ==
    IF Len(text) >= SummaryLimit
    THEN SubSeq(text, 1, SummaryLimit) \o TruncationMarker
    ELSE text

\* lines 292-293: if len(summary) > 2900: summary = summary[:2900] + "..."
SlackSummaryText(text) ==
    IF Len(text) > SummaryLimit
    THEN SubSeq(text, 1, SummaryLimit) \o TruncationMarker
    ELSE text

\* sns_to_slack, lines 110-111: the same statement in format_message
ForwarderSummaryText(text) ==
    IF Len(text) > ForwarderLimit
    THEN SubSeq(text, 1, ForwarderLimit) \o TruncationMarker
    ELSE text

\* the lengths of the summaries handed to the builders
SummaryLengths ==
    {0, ShortSummaryLen, MaxSummaryLen}
        \cup ((SummaryLimit - LenWindow) .. (SummaryLimit + LenWindow))

-----------------------------------------------------------------------------
(* State machine *)

Init ==
    /\ MAX_RETRIES \in RetriesValues
    /\ BATCH_SIZE \in 1 .. MaxBatch
    /\ SLACK_WEBHOOK_URL \in BOOLEAN
    /\ SNS_TOPIC_ARN \in BOOLEAN
    /\ news_table \in StoredItems
    /\ pc = "start"
    /\ unprocessed_articles = <<>>
    /\ i = 0
    /\ batch = <<>>
    /\ j = 0
    /\ retry_count = 0
    /\ summary = Absent
    /\ articles_with_summaries = <<>>
    /\ sleepFor = 0
    /\ invokes = 0
    /\ sleeps = 0
    /\ outcomes = <<>>
    /\ batches = <<>>
    /\ nDone = 0
    /\ intraInBatch = 0
    /\ intraTotal = 0
    /\ interTotal = 0
    /\ batchesEnded = 0
    /\ slackSends = 0
    /\ snsPublishes = 0
    /\ notifyResult = "none"
    /\ dispatched = <<>>
    /\ published = <<>>
    /\ slackOutcome = "none"
    /\ snsOutcome = "none"
    /\ slackCalls = 0
    /\ notConfigured = FALSE
    /\ updates = <<>>
    /\ scanFailed = FALSE
    /\ run = 1
    /\ processedAtStart = {}
    /\ result = NoResult
    /\ calls = <<>>
    /\ writes = <<>>
    /\ suspended = NotStarted
    /\ received = NoSummary
    /\ rendered = NoBlock

\* process_articles, lines 411-422, with get_unprocessed_articles_from_dynamodb
Fetch(scanOk) ==
    /\ pc = "start"
    /\ unprocessed_articles' = IF scanOk THEN ScanFrom(1) ELSE <<>>
    /\ i' = 0
    /\ pc' = "for_batch"
    /\ scanFailed' = ~scanOk
    /\ UNCHANGED <<cfgVars, sideVars, runVars, updates, calls, writes, news_table, batch, j, summary, articles_with_summaries,
                   sleepFor, sumVars, batches, nDone, paceVars, notifyVars>>

\* for i in range(0, total_articles, BATCH_SIZE): batch = [i:i+BATCH_SIZE]
BatchStart ==
    /\ pc = "for_batch"
    /\ IF MoreBatches(i, Len(unprocessed_articles))
       THEN /\ batch' = BatchSlice(unprocessed_articles, i)
            /\ batches' = Append(batches, batch')
            /\ j' = 1
            /\ intraInBatch' = 0
            /\ pc' = "article"
       ELSE /\ pc' = "notify"
            /\ UNCHANGED <<batch, batches, j, intraInBatch>>
    /\ UNCHANGED <<cfgVars, sideVars, runVars, updates, calls, writes, scanFailed, news_table, unprocessed_articles, i, summary,
                   articles_with_summaries, sleepFor, sumVars, nDone,
                   intraTotal, interTotal, batchesEnded, notifyVars>>

\* for article in batch: ... summarize_article_with_bedrock(article, ...) is entered
ArticleStart ==
    /\ pc = "article"
    /\ retry_count' = 0
    /\ invokes' = 0
    /\ sleeps' = 0
    /\ outcomes' = <<>>
    /\ summary' = Absent
    /\ calls' = Append(calls, batch[j].id)
    /\ pc' = "while"
    /\ UNCHANGED <<cfgVars, sideVars, runVars, updates, writes, scanFailed, news_table, unprocessed_articles, i, batch, j,
                   articles_with_summaries, sleepFor, batches, nDone, paceVars,
                   notifyVars>>

\* while retry_count <= MAX_RETRIES: ... if not content: return sentinel
\* (a false loop test falls off the end of the function: returns None)
WhileTest ==
    /\ pc = "while"
    /\ IF LoopGuard(retry_count)
       THEN IF batch[j].content = ""
            THEN summary' = NoContentText /\ pc' = "update"
            ELSE summary' = summary /\ pc' = "invoke"
       ELSE summary' = NoneValue /\ pc' = "update"
    /\ UNCHANGED <<cfgVars, sideVars, runVars, updates, calls, writes, scanFailed, news_table, unprocessed_articles, i, batch, j,
                   articles_with_summaries, sleepFor, sumVars, batches, nDone,
                   paceVars, notifyVars>>

\* variant: the backoff sleep is also taken after the last allowed attempt
Invoke_SleepsWhenExhausted(outcome, k) ==
    /\ pc = "invoke"
    /\ invokes' = invokes + 1
    /\ outcomes' = Append(outcomes, OutcomeClass(outcome))
    /\ IF outcome = "ok"
       THEN /\ summary' = GeneratedText
            /\ pc' = "update"
            /\ UNCHANGED <<retry_count, sleepFor, sleeps>>
       ELSE IF outcome \in RetryableCodes
       THEN /\ retry_count' = NextRetryCount(retry_count)
            /\ sleepFor' = BackoffDelay(retry_count', Jitter(k))
            /\ sleeps' = sleeps + 1
            /\ IF BudgetExhausted(retry_count')
               THEN summary' = ExhaustedText /\ pc' = "update"
               ELSE pc' = "backoff" /\ UNCHANGED summary
       ELSE /\ summary' = ErrorText
            /\ pc' = "update"
            /\ UNCHANGED <<retry_count, sleepFor, sleeps>>
    /\ UNCHANGED <<cfgVars, sideVars, runVars, updates, calls, writes, scanFailed, news_table, unprocessed_articles, i, batch, j,
                   articles_with_summaries, batches, nDone, paceVars, notifyVars>>

\* one bedrock_runtime.invoke_model call and the handling of its outcome
Invoke(outcome, k) ==
    /\ pc = "invoke"
    /\ invokes' = invokes + 1
    /\ outcomes' = Append(outcomes, OutcomeClass(outcome))
    /\ IF outcome = "ok"
       THEN /\ summary' = GeneratedText
            /\ pc' = "update"
            /\ UNCHANGED <<retry_count, sleepFor, sleeps>>
       ELSE IF outcome \in RetryableCodes
       THEN /\ retry_count' = NextRetryCount(retry_count)
            /\ IF BudgetExhausted(retry_count')
               THEN /\ summary' = ExhaustedText
                    /\ pc' = "update"
                    /\ UNCHANGED <<sleepFor, sleeps>>
               ELSE /\ sleepFor' = BackoffDelay(retry_count', Jitter(k))
                    /\ sleeps' = sleeps + 1
                    /\ pc' = "backoff"
                    /\ UNCHANGED summary
       ELSE /\ summary' = ErrorText
            /\ pc' = "update"
            /\ UNCHANGED <<retry_count, sleepFor, sleeps>>
    /\ UNCHANGED <<cfgVars, sideVars, runVars, updates, calls, writes, scanFailed, news_table, unprocessed_articles, i, batch, j,
                   articles_with_summaries, batches, nDone, paceVars, notifyVars>>

\* time.sleep(delay) returns; the loop test is next
BackoffWake ==
    /\ pc = "backoff"
    /\ sleepFor' = 0
    /\ pc' = "while"
    /\ UNCHANGED <<cfgVars, sideVars, runVars, updates, calls, writes, scanFailed, news_table, unprocessed_articles, i, batch, j, summary,
                   articles_with_summaries, sumVars, batches, nDone, paceVars,
                   notifyVars>>

\* variant: the loop stays on the article it has just handled
AfterArticle_RepeatsItem == j' = j /\ pc' = "article"

\* where the batch loop goes after an article: the next article or line 455
AfterArticle ==
    IF j < Len(batch)
    THEN j' = j + 1 /\ pc' = "article"
    ELSE j' = j /\ pc' = "batch_end"

\* variant: the summary is stored by a write of its own, before the flag
WriteBack_SummaryOnly(id, text) ==
    [news_table EXCEPT ![id] = [@ EXCEPT !.summary = text]]

\* variant: the update is refused for an item that is already processed
WriteBack_KeepsFirst(id, text) ==
    IF news_table[id].processed THEN news_table
    ELSE [news_table EXCEPT ![id] = [@ EXCEPT !.summary = text,
                                              !.processed = TRUE,
                                              !.processed_at = TRUE]]

\* variant: only a generated summary marks the item processed
WriteBack_OnlyGenerated(id, text) ==
    [news_table EXCEPT ![id] = [@ EXCEPT !.summary = text,
                                         !.processed = (text = GeneratedText),
                                         !.processed_at = (text = GeneratedText)]]

\* update_article_in_dynamodb: one update_item sets the three fields together
WriteBack(id, text) ==
    [news_table EXCEPT ![id] = [@ EXCEPT !.summary = text,
                                         !.processed = TRUE,
                                         !.processed_at = TRUE]]

\* variant: the article joins the payload whatever the write-back returned
PayloadAfter_AlwaysAppend(payload, article, text, update_success) ==
    Append(payload, [id |-> article.id, content |-> article.content,
                     summary |-> text])

\* lines 444-448: the article, with its summary, joins the payload iff the
\* write-back succeeded
PayloadAfter(payload, article, text, update_success) ==
    IF update_success
    THEN Append(payload, [id |-> article.id, content |-> article.content,
                          summary |-> text])
    ELSE payload

\* lines 438-453: write-back, payload append, then the 0.5 s sleep is entered
Update(update_success) ==
    /\ pc = "update"
    /\ news_table' = IF update_success THEN WriteBack(batch[j].id, summary)
                     ELSE news_table
    /\ articles_with_summaries' =
           PayloadAfter(articles_with_summaries, batch[j], summary, update_success)
    /\ nDone' = nDone + 1
    \* the values of the finished iteration are dead from here on
    /\ summary' = Absent
    /\ retry_count' = 0 /\ invokes' = 0 /\ sleeps' = 0 /\ outcomes' = <<>>
    /\ IF IntraPauseDue(batch)
       THEN /\ sleepFor' = IntraPause
            /\ intraInBatch' = intraInBatch + 1
            /\ intraTotal' = intraTotal + 1
            /\ pc' = "intra_sleep"
            /\ j' = j
       ELSE /\ AfterArticle
            /\ UNCHANGED <<sleepFor, intraInBatch, intraTotal>>
    /\ updates' = Append(updates, [id |-> batch[j].id, ok |-> update_success])
    /\ writes' = IF update_success
                 THEN Append(writes, [id |-> batch[j].id, summary |-> summary])
                 ELSE writes
    /\ UNCHANGED <<cfgVars, sideVars, runVars, calls, scanFailed, unprocessed_articles, i, batch, batches, interTotal,
                   batchesEnded, notifyVars>>

\* time.sleep(0.5) returns
IntraWake ==
    /\ pc = "intra_sleep"
    /\ sleepFor' = 0
    /\ AfterArticle
    /\ UNCHANGED <<cfgVars, sideVars, runVars, updates, calls, writes, scanFailed, news_table, unprocessed_articles, i, batch, summary,
                   articles_with_summaries, sumVars, batches, nDone, paceVars,
                   notifyVars>>

\* lines 455-459: if i + BATCH_SIZE < total_articles: sleep(uniform(5, 15))
BatchEnd(k) ==
    /\ pc = "batch_end"
    /\ batchesEnded' = batchesEnded + 1
    /\ IF InterPauseDue(i, Len(unprocessed_articles))
       THEN /\ sleepFor' = BatchDelay(k)
            /\ interTotal' = interTotal + 1
            /\ pc' = "inter_sleep"
            /\ i' = i
       ELSE /\ i' = i + BATCH_SIZE
            /\ pc' = "for_batch"
            /\ UNCHANGED <<sleepFor, interTotal>>
    /\ UNCHANGED <<cfgVars, sideVars, runVars, updates, calls, writes, scanFailed, news_table, unprocessed_articles, batch, j, summary,
                   articles_with_summaries, sumVars, batches, nDone, intraInBatch,
                   intraTotal, notifyVars>>

\* time.sleep(batch_delay) returns; the for loop takes its next index
InterWake ==
    /\ pc = "inter_sleep"
    /\ sleepFor' = 0
    /\ i' = i + BATCH_SIZE
    /\ pc' = "for_batch"
    /\ UNCHANGED <<cfgVars, sideVars, runVars, updates, calls, writes, scanFailed, news_table, unprocessed_articles, batch, j, summary,
                   articles_with_summaries, sumVars, batches, nDone, paceVars,
                   notifyVars>>

\* send_slack_notification raises while building the blocks when a summary is
\* not a string: len(None) at line 292
BuildFails == \E n \in 1 .. Len(articles_with_summaries) :
                  articles_with_summaries[n].summary.type # "str"

\* variant: the dispatch is entered for an empty payload too
DispatchDue_Always(payload) == TRUE

\* line 462: if articles_with_summaries
DispatchDue(payload) == payload # <<>>

\* lines 380-401: the one publish carries the text digest under "default" and
\* "email" and the structured list under "lambda"
SnsMessage(payload) ==
    [default |-> [form |-> "text", entries |-> payload],
     email |-> [form |-> "text", entries |-> payload],
     lambda |-> [form |-> "json", entries |-> payload]]

\* send_sns_notification, lines 345-407: without a topic it reports "not
\* configured"; otherwise one publish, True iff it did not raise
Publish(snsOk) ==
    IF ~SNS_TOPIC_ARN
    THEN /\ notConfigured' = TRUE
         /\ notifyResult' = "False"
         /\ UNCHANGED <<published, snsPublishes, snsOutcome>>
    ELSE /\ published' = Append(published, SnsMessage(articles_with_summaries))
         /\ snsPublishes' = snsPublishes + 1
         /\ snsOutcome' = IF snsOk THEN "ok" ELSE "failed"
         /\ notifyResult' = IF snsOk THEN "True" ELSE "False"
         /\ UNCHANGED notConfigured

\* variant: a failed send returns False without trying the topic
SendSlack_NoFallback(slackOk, snsOk) ==
    /\ slackCalls' = slackCalls + 1
    /\ slackSends' = slackSends + 1
    /\ slackOutcome' = IF slackOk THEN "ok" ELSE "failed"
    /\ notifyResult' = IF slackOk THEN "True" ELSE "False"
    /\ UNCHANGED <<published, snsPublishes, snsOutcome, notConfigured>>

\* variant: a failure while the message is built falls back to the topic too
SendSlack_FallbackOnBuildFailure(slackOk, snsOk) ==
    /\ slackCalls' = slackCalls + 1
    /\ IF ~SLACK_WEBHOOK_URL
       THEN /\ notConfigured' = TRUE
            /\ notifyResult' = "False"
            /\ UNCHANGED <<slackSends, slackOutcome, published, snsPublishes, snsOutcome>>
       ELSE IF BuildFails
       THEN /\ UNCHANGED <<slackSends, slackOutcome>>
            /\ IF SNS_TOPIC_ARN
               THEN Publish(snsOk)
               ELSE /\ notifyResult' = "False"
                    /\ UNCHANGED <<published, snsPublishes, snsOutcome,
                                   notConfigured>>
       ELSE /\ slackSends' = slackSends + 1
            /\ IF slackOk
               THEN /\ slackOutcome' = "ok"
                    /\ notifyResult' = "True"
                    /\ UNCHANGED <<published, snsPublishes, snsOutcome, notConfigured>>
               ELSE /\ slackOutcome' = "failed"
                    /\ IF SNS_TOPIC_ARN
                       THEN Publish(snsOk)
                       ELSE /\ notifyResult' = "False"
                            /\ UNCHANGED <<published, snsPublishes, snsOutcome,
                                           notConfigured>>

\* send_slack_notification, lines 236-343
SendSlack(slackOk, snsOk) ==
    /\ slackCalls' = slackCalls + 1
    /\ IF ~SLACK_WEBHOOK_URL
       THEN /\ notConfigured' = TRUE
            /\ notifyResult' = "False"
            /\ UNCHANGED <<slackSends, slackOutcome, published, snsPublishes, snsOutcome>>
       ELSE IF BuildFails
       THEN /\ notifyResult' = "False"
            /\ UNCHANGED <<slackSends, slackOutcome, published, snsPublishes,
                           snsOutcome, notConfigured>>
       ELSE /\ slackSends' = slackSends + 1
            /\ IF slackOk
               THEN /\ slackOutcome' = "ok"
                    /\ notifyResult' = "True"
                    /\ UNCHANGED <<published, snsPublishes, snsOutcome, notConfigured>>
               ELSE /\ slackOutcome' = "failed"
                    /\ IF SNS_TOPIC_ARN
                       THEN Publish(snsOk)
                       ELSE /\ notifyResult' = "False"
                            /\ UNCHANGED <<published, snsPublishes, snsOutcome,
                                           notConfigured>>

\* process_articles, lines 461-472
Notify(slackOk, snsOk) ==
    /\ pc = "notify"
    /\ IF DispatchDue(articles_with_summaries) /\ SLACK_WEBHOOK_URL
       THEN /\ dispatched' = Append(dispatched, articles_with_summaries)
            /\ SendSlack(slackOk, snsOk)
       ELSE IF DispatchDue(articles_with_summaries) /\ SNS_TOPIC_ARN
       THEN /\ dispatched' = Append(dispatched, articles_with_summaries)
            /\ Publish(snsOk)
            /\ UNCHANGED <<slackSends, slackOutcome, slackCalls>>
       ELSE UNCHANGED notifyVars
    /\ pc' = "done"
    /\ UNCHANGED <<cfgVars, sideVars, runVars, updates, calls, writes, scanFailed, news_table,
                   unprocessed_articles, i, batch, j, summary,
                   articles_with_summaries, sleepFor, sumVars, batches, nDone,
                   paceVars>>

ArticleIds(articles) == [n \in 1 .. Len(articles) |-> articles[n].id]

\* lines 489-499: the keys of the result dictionary
ResultKeys == {"statusCode", "articles_processed", "articles"}

\* variant: a failed notification turns the result into an error
HandlerResult_FailsOnNotify(processed_articles, is_api_event) ==
    IF notifyResult = "False"
    THEN [returned |-> TRUE, keys |-> {"error"}, statusCode |-> 500, error |-> TRUE,
          wrapped |-> is_api_event, articles_processed |-> 0, articles |-> <<>>]
    ELSE [returned |-> TRUE, keys |-> ResultKeys, statusCode |-> 200, error |-> FALSE,
          wrapped |-> is_api_event,
          articles_processed |-> Len(processed_articles),
          articles |-> ArticleIds(processed_articles)]

\* lambda_handler, lines 489-512: the result built from process_articles' list
HandlerResult(processed_articles, is_api_event) ==
    [returned |-> TRUE, keys |-> ResultKeys, statusCode |-> 200, error |-> FALSE,
     wrapped |-> is_api_event,
     articles_processed |-> Len(processed_articles),
     articles |-> ArticleIds(processed_articles)]

\* process_articles returns its list and lambda_handler returns, lines 472-512
Return(is_api_event) ==
    /\ pc = "done"
    /\ result' = HandlerResult(articles_with_summaries, is_api_event)
    /\ pc' = "returned"
    /\ UNCHANGED <<cfgVars, sideVars, run, processedAtStart, updates, calls, writes, scanFailed, news_table,
                   unprocessed_articles, i, batch, j, summary,
                   articles_with_summaries, sleepFor, sumVars, batches, nDone,
                   paceVars, notifyVars>>

ProcessedIds == {id \in 1 .. Len(news_table) : news_table[id].processed}

\* the Lambda is invoked again after the previous invocation has returned
NextRun ==
    /\ pc = "returned"
    /\ run < MaxRuns
    /\ run' = run + 1
    /\ processedAtStart' = ProcessedIds
    /\ pc' = "start"
    /\ unprocessed_articles' = <<>>
    /\ i' = 0
    /\ batch' = <<>>
    /\ j' = 0
    /\ retry_count' = 0
    /\ summary' = Absent
    /\ articles_with_summaries' = <<>>
    /\ sleepFor' = 0
    /\ invokes' = 0
    /\ sleeps' = 0
    /\ outcomes' = <<>>
    /\ batches' = <<>>
    /\ nDone' = 0
    /\ intraInBatch' = 0
    /\ intraTotal' = 0
    /\ interTotal' = 0
    /\ batchesEnded' = 0
    /\ slackSends' = 0
    /\ snsPublishes' = 0
    /\ notifyResult' = "none"
    /\ dispatched' = <<>>
    /\ published' = <<>>
    /\ slackOutcome' = "none"
    /\ snsOutcome' = "none"
    /\ slackCalls' = 0
    /\ notConfigured' = FALSE
    /\ updates' = <<>>
    /\ scanFailed' = FALSE
    /\ result' = NoResult
    /\ calls' = <<>>
    /\ UNCHANGED <<cfgVars, sideVars, news_table, writes>>

\* the variables of the running invocation, as they are kept while another
\* invocation runs
Locals ==
    [pc |-> pc, unprocessed_articles |-> unprocessed_articles, i |-> i,
     batch |-> batch, j |-> j, retry_count |-> retry_count,
     summary |-> summary,
     articles_with_summaries |-> articles_with_summaries,
     sleepFor |-> sleepFor, invokes |-> invokes, sleeps |-> sleeps,
     outcomes |-> outcomes, batches |-> batches, nDone |-> nDone,
     intraInBatch |-> intraInBatch, intraTotal |-> intraTotal,
     interTotal |-> interTotal, batchesEnded |-> batchesEnded,
     slackSends |-> slackSends, snsPublishes |-> snsPublishes,
     notifyResult |-> notifyResult, dispatched |-> dispatched,
     published |-> published, slackOutcome |-> slackOutcome,
     snsOutcome |-> snsOutcome, slackCalls |-> slackCalls,
     notConfigured |-> notConfigured, updates |-> updates,
     scanFailed |-> scanFailed, run |-> run,
     processedAtStart |-> processedAtStart, result |-> result,
     calls |-> calls]

\* the variables of invocation number r when lambda_handler is entered
Fresh(r) ==
    [pc |-> "start", unprocessed_articles |-> <<>>, i |-> 0, batch |-> <<>>,
     j |-> 0, retry_count |-> 0, summary |-> Absent,
     articles_with_summaries |-> <<>>, sleepFor |-> 0, invokes |-> 0,
     sleeps |-> 0, outcomes |-> <<>>, batches |-> <<>>, nDone |-> 0,
     intraInBatch |-> 0, intraTotal |-> 0, interTotal |-> 0,
     batchesEnded |-> 0, slackSends |-> 0, snsPublishes |-> 0,
     notifyResult |-> "none", dispatched |-> <<>>, published |-> <<>>,
     slackOutcome |-> "none", snsOutcome |-> "none", slackCalls |-> 0,
     notConfigured |-> FALSE, updates |-> <<>>, scanFailed |-> FALSE,
     run |-> r, processedAtStart |-> ProcessedIds, result |-> NoResult,
     calls |-> <<>>]

\* news_processor_async, lines 22-29: the processor is invoked asynchronously
\* (InvocationType 'Event') while an invocation may still be running.  The new
\* invocation does nothing the running one can see before its scan, so it is
\* enough to let it begin while the running one is at its own beginning.
InvokeAgain ==
    /\ suspended = NotStarted
    /\ pc = "start"
    /\ suspended' = Fresh(run + 1)
    /\ UNCHANGED <<cfgVars, news_table, writes, received, rendered>>
    /\ UNCHANGED localVars

\* the two invocations run in separate containers: either one takes the next
\* step.  The running one is set aside and the other one continues.  Only the
\* scan (line 33) and update_item (line 194) touch what the other invocation
\* can see, so the hand-over is taken before one of them or after the return.
Switch ==
    /\ suspended # NotStarted
    /\ pc \in {"start", "update", "returned"}
    /\ suspended' = Locals
    /\ pc' = suspended.pc
    /\ unprocessed_articles' = suspended.unprocessed_articles
    /\ i' = suspended.i
    /\ batch' = suspended.batch
    /\ j' = suspended.j
    /\ retry_count' = suspended.retry_count
    /\ summary' = suspended.summary
    /\ articles_with_summaries' = suspended.articles_with_summaries
    /\ sleepFor' = suspended.sleepFor
    /\ invokes' = suspended.invokes
    /\ sleeps' = suspended.sleeps
    /\ outcomes' = suspended.outcomes
    /\ batches' = suspended.batches
    /\ nDone' = suspended.nDone
    /\ intraInBatch' = suspended.intraInBatch
    /\ intraTotal' = suspended.intraTotal
    /\ interTotal' = suspended.interTotal
    /\ batchesEnded' = suspended.batchesEnded
    /\ slackSends' = suspended.slackSends
    /\ snsPublishes' = suspended.snsPublishes
    /\ notifyResult' = suspended.notifyResult
    /\ dispatched' = suspended.dispatched
    /\ published' = suspended.published
    /\ slackOutcome' = suspended.slackOutcome
    /\ snsOutcome' = suspended.snsOutcome
    /\ slackCalls' = suspended.slackCalls
    /\ notConfigured' = suspended.notConfigured
    /\ updates' = suspended.updates
    /\ scanFailed' = suspended.scanFailed
    /\ run' = suspended.run
    /\ processedAtStart' = suspended.processedAtStart
    /\ result' = suspended.result
    /\ calls' = suspended.calls
    /\ UNCHANGED <<cfgVars, news_table, writes, received, rendered>>

\* random.uniform is called only on the path that sleeps (lines 177, 457)
BackoffDraws(outcome) ==
    IF outcome \in RetryableCodes /\ ~BudgetExhausted(NextRetryCount(retry_count))
    THEN RandomValues ELSE {0}

BatchDraws ==
    IF InterPauseDue(i, Len(unprocessed_articles)) THEN RandomValues ELSE {0}

Next ==
    \/ \E scanOk \in BOOLEAN : Fetch(scanOk)
    \/ BatchStart
    \/ ArticleStart
    \/ WhileTest
    \/ \E outcome \in BackendOutcomes : \E k \in BackoffDraws(outcome) : Invoke(outcome, k)
    \/ BackoffWake
    \/ \E update_success \in BOOLEAN : Update(update_success)
    \/ IntraWake
    \/ \E k \in BatchDraws : BatchEnd(k)
    \/ InterWake
    \/ \E slackOk \in BOOLEAN, snsOk \in BOOLEAN : Notify(slackOk, snsOk)
    \/ \E is_api_event \in BOOLEAN : Return(is_api_event)

\* one invocation of the Lambda
Spec == Init /\ [][Next]_vars

\* invocations one after another on the same table, both channels configured
InitRuns ==
    /\ Init
    /\ MAX_RETRIES = RunsMaxRetries
    /\ SLACK_WEBHOOK_URL /\ SNS_TOPIC_ARN
    /\ news_table \in ItemsUpTo(MaxRunItems)

NextRuns == Next \/ NextRun

SpecRuns == InitRuns /\ [][NextRuns]_vars

\* line 327: urllib.request.urlopen(req) is called without a timeout, so it
\* returns or raises only if the webhook's server answers or the connection
\* breaks.  Here the server accepts the request and never answers.
SendHangs ==
    /\ pc = "notify"
    /\ DispatchDue(articles_with_summaries) /\ SLACK_WEBHOOK_URL /\ ~BuildFails
    /\ dispatched' = Append(dispatched, articles_with_summaries)
    /\ slackCalls' = slackCalls + 1
    /\ slackSends' = slackSends + 1
    /\ pc' = "sending"
    /\ UNCHANGED <<cfgVars, sideVars, runVars, updates, calls, writes, scanFailed,
                   news_table, unprocessed_articles, i, batch, j, summary,
                   articles_with_summaries, sleepFor, sumVars, batches, nDone,
                   paceVars, snsPublishes, notifyResult, published, slackOutcome,
                   snsOutcome, notConfigured>>

\* one invocation, both channels configured
InitLive ==
    /\ Init
    /\ SLACK_WEBHOOK_URL /\ SNS_TOPIC_ARN
    /\ Len(news_table) <= MaxRunItems

NextLive == Next \/ SendHangs

\* The thread keeps running, a sleep returns, and a call made through boto3
\* (scan, update_item, invoke_model, publish) returns or raises within
\* botocore's timeouts: the steps of Next are taken when they can be.  Nothing
\* makes the webhook's server answer.
SpecLive == InitLive /\ [][NextLive]_vars /\ WF_vars(Next)

\* the same invocation with a webhook whose server always answers
SpecAnswered == InitLive /\ [][Next]_vars /\ WF_vars(Next)

\* two invocations that overlap, on the same table
InitOverlap ==
    /\ Init
    /\ MAX_RETRIES = OverlapMaxRetries
    /\ SLACK_WEBHOOK_URL /\ ~SNS_TOPIC_ARN
    /\ news_table \in ItemsUpTo(MaxOverlapItems)
    /\ \A id \in 1 .. Len(news_table) : news_table[id].content = "text"

\* the length of a sleep has no bearing on what the other invocation sees:
\* one draw of random.random() stands for all
OverlapDraws == {0}

\* the backend answers or throttles; the processor is invoked with the event
\* of line 26, which has no httpMethod
OverlapOutcomes == {"ok", "ThrottlingException"}
OverlapEvents == {FALSE}

NextOverlap ==
    \/ \E scanOk \in BOOLEAN : Fetch(scanOk)
    \/ BatchStart
    \/ ArticleStart
    \/ WhileTest
    \/ \E outcome \in OverlapOutcomes : \E k \in OverlapDraws : Invoke(outcome, k)
    \/ BackoffWake
    \/ \E update_success \in BOOLEAN : Update(update_success)
    \/ IntraWake
    \/ \E k \in OverlapDraws : BatchEnd(k)
    \/ InterWake
    \/ \E slackOk \in BOOLEAN, snsOk \in BOOLEAN : Notify(slackOk, snsOk)
    \/ \E is_api_event \in OverlapEvents : Return(is_api_event)
    \/ InvokeAgain
    \/ Switch

SpecOverlap == InitOverlap /\ [][NextOverlap]_vars

\* a summary reaches a message builder in the payload (line 281, and
\* sns_to_slack line 94)
Receive(len) ==
    /\ ~received.given
    /\ received' = [given |-> TRUE, text |-> TextOf(len)]
    /\ UNCHANGED <<cfgVars, localVars, news_table, writes, suspended, rendered>>

\* send_slack_notification builds the summary block, lines 290-301
BuildSlackBlock ==
    /\ received.given /\ rendered = NoBlock
    /\ rendered' = [by |-> "send_slack_notification",
                    text |-> SlackSummaryText(received.text)]
    /\ UNCHANGED <<cfgVars, localVars, news_table, writes, suspended, received>>

\* sns_to_slack format_message builds the summary block, lines 109-119
BuildForwarderBlock ==
    /\ received.given /\ rendered = NoBlock
    /\ rendered' = [by |-> "format_message",
                    text |-> ForwarderSummaryText(received.text)]
    /\ UNCHANGED <<cfgVars, localVars, news_table, writes, suspended, received>>

\* the message builders alone, on summaries of the lengths SummaryLengths
InitRender ==
    /\ Init
    /\ MAX_RETRIES = 0 /\ BATCH_SIZE = 1
    /\ SLACK_WEBHOOK_URL /\ SNS_TOPIC_ARN
    /\ news_table = <<>>

NextRender ==
    \/ \E len \in SummaryLengths : Receive(len)
    \/ BuildSlackBlock
    \/ BuildForwarderBlock

SpecRender == InitRender /\ [][NextRender]_vars

TypeOK ==
    /\ pc \in {"start", "for_batch", "article", "while", "invoke", "backoff",
              "update", "intra_sleep", "batch_end", "inter_sleep", "notify", "done",
              "returned", "sending"}
    /\ sleepFor >= 0
    /\ invokes \in Nat /\ sleeps \in Nat
    /\ Len(calls) <= Len(unprocessed_articles)
    /\ \A n \in 1 .. Len(writes) : writes[n].id \in 1 .. Len(news_table)
    /\ suspended = NotStarted \/ suspended.pc # "absent"
    /\ received.given \in BOOLEAN
    /\ rendered.by \in {"none", "send_slack_notification", "format_message"}
    /\ slackCalls \in Nat /\ slackSends \in Nat /\ snsPublishes \in Nat
    /\ notifyResult \in {"none", "True", "False"}
    /\ slackOutcome \in {"none", "ok", "failed"}
    /\ snsOutcome \in {"none", "ok", "failed"}
    /\ notConfigured \in BOOLEAN /\ scanFailed \in BOOLEAN
    /\ run \in 1 .. MaxRuns
    /\ processedAtStart \subseteq 1 .. Len(news_table)

-----------------------------------------------------------------------------
(* Properties of summarize_article_with_bedrock.  The call of the current   *)
(* article has returned exactly when pc = "update"; invokes, sleeps and     *)
(* outcomes then describe the whole call.  They are cleared when the        *)
(* orchestrator has consumed the returned value.                            *)

Returned == pc = "update"
InCall == pc \in {"while", "invoke", "backoff", "update"}
AllRateLimited == \A n \in 1 .. Len(outcomes) : outcomes[n] = "rate_limit"
LastOutcome == outcomes[Len(outcomes)]

\* C1: for an item with non-empty content, whatever the backend answers, one
\* call of the summarizer makes at most MAX_RETRIES + 1 invoke_model calls.
C1_AtMostBudgetPlusOneCalls ==
    (InCall /\ batch[j].content # "") => invokes <= MAX_RETRIES + 1

C1_Witness ==
    /\ Returned
    /\ batch[j].content # ""
    /\ MAX_RETRIES = MaxRetriesCap
    /\ invokes = MAX_RETRIES + 1

\* C2: when every backend answer is a rate-limit error and MAX_RETRIES = k >= 0,
\* the call returns after exactly k + 1 invoke_model calls with the
\* retries-exhausted error text, which contains k.
C2_ExhaustedAfterBudgetPlusOne ==
    (Returned /\ batch[j].content # "" /\ MAX_RETRIES >= 0 /\ AllRateLimited)
        => /\ invokes = MAX_RETRIES + 1
           /\ summary.type = "str"
           /\ summary.kind = "Error generating summary after N retries"
           /\ MAX_RETRIES \in summary.mentions

C2_Witness ==
    /\ Returned
    /\ AllRateLimited
    /\ MAX_RETRIES = MaxRetriesCap
    /\ invokes = MaxRetriesCap + 1
    /\ summary = ExhaustedText

\* C3: whatever the item, the backend answers and the configured integer
\* MAX_RETRIES, the summarizer returns a string.
C3_AlwaysReturnsString ==
    Returned => summary.type = "str"

\* C4: for an item with empty content the summarizer returns the fixed
\* "no content" sentinel, with no invoke_model call and no backoff sleep.
C4_EmptyContentSentinel ==
    (Returned /\ batch[j].content = "")
        => summary = NoContentText /\ invokes = 0 /\ sleeps = 0

\* C5: a backend failure that is not a rate-limit error ends the call at once
\* with an error string: it is the last backend answer of the call, no sleep
\* follows it, and when it is the first answer the backend was called once.
C5_OtherFailureIsTerminal ==
    /\ \A n \in 1 .. Len(outcomes) - 1 : outcomes[n] = "rate_limit"
    /\ (outcomes # <<>> /\ LastOutcome = "other_failure")
          => /\ pc \notin {"while", "invoke", "backoff"}
             /\ sleepFor = 0
             /\ sleeps = Len(outcomes) - 1
             /\ invokes = Len(outcomes)
             /\ Returned => summary = ErrorText
    /\ (outcomes # <<>> /\ outcomes[1] = "other_failure")
          => invokes = 1 /\ sleeps = 0

C5_Witness ==
    /\ Returned
    /\ Len(outcomes) = 2
    /\ LastOutcome = "other_failure"
    /\ summary = ErrorText

-----------------------------------------------------------------------------
(* Properties of the backoff delay *)

\* C6 as stated: the delay slept before retry attempt r (the value of
\* retry_count after its increment, 1 <= r <= MAX_RETRIES) lies in
\* [2^r, 2^r + 5), the jitter being in [1, 5).
C6_DelayBelowUpperEnd ==
    pc = "backoff"
        => /\ retry_count >= 1 /\ retry_count <= MAX_RETRIES
           /\ sleepFor >= Pow2(retry_count) * Unit
           /\ sleepFor < (Pow2(retry_count) + 5) * Unit

\* C6 amended: the delay lies in [2^r, 2^r + 5], upper end included:
\* random.uniform(1, 5) is 1 + 4 * random(), which rounds to 5.0 for the
\* largest value of random(), and the sum with 2^r is rounded again.
C6_DelayWithinClosedRange ==
    pc = "backoff"
        => /\ retry_count >= 1 /\ retry_count <= MAX_RETRIES
           /\ sleepFor >= Pow2(retry_count) * Unit
           /\ sleepFor <= (Pow2(retry_count) + 5) * Unit

C6_Witness ==
    /\ pc = "backoff"
    /\ retry_count = MaxRetriesCap
    /\ sleepFor > (Pow2(retry_count) + 1) * Unit
    /\ sleepFor < (Pow2(retry_count) + 5) * Unit

-----------------------------------------------------------------------------
(* Properties of the batch loop of process_articles *)

CeilDiv(n, b) == (n + b - 1) \div b

RECURSIVE Flatten(_)
Flatten(ss) == IF ss = <<>> THEN <<>> ELSE Head(ss) \o Flatten(Tail(ss))

LoopOver == pc \in {"notify", "done", "returned"}

\* C7: with a backlog of n items and BATCH_SIZE = b >= 1 the loop forms
\* exactly ceil(n / b) batches, each of b items except possibly the last,
\* whose concatenation in order is the fetched backlog.
C7_BatchesPartitionBacklog ==
    LET n == Len(unprocessed_articles)
        done == Flatten(batches)
    IN  /\ Len(done) <= n
        /\ done = SubSeq(unprocessed_articles, 1, Len(done))
        /\ \A b \in 1 .. Len(batches) :
              /\ Len(batches[b]) >= 1
              /\ Len(batches[b]) <= BATCH_SIZE
              /\ b < Len(batches) => Len(batches[b]) = BATCH_SIZE
        /\ LoopOver => /\ Len(batches) = CeilDiv(n, BATCH_SIZE)
                       /\ done = unprocessed_articles

C7_Witness ==
    /\ pc = "done"
    /\ Len(unprocessed_articles) = 3
    /\ BATCH_SIZE = 2
    /\ Len(batches) = 2
    /\ Len(batches[2]) = 1

\* C8: a batch of m > 1 items has exactly m - 1 pauses of 0.5, a batch of
\* one item has none; a run over 3 items with BATCH_SIZE = 2 has exactly one
\* intra-batch pause and one inter-batch pause.
C8_PausesOnlyBetweenItems ==
    /\ pc = "batch_end"
          => intraInBatch = (IF Len(batch) > 1 THEN Len(batch) - 1 ELSE 0)
    /\ (pc = "done" /\ Len(unprocessed_articles) = 3 /\ BATCH_SIZE = 2)
          => intraTotal = 1 /\ interTotal = 1

\* C9: no pacing pause is taken before the first item of the run has been
\* processed and none after the last item of the run has been processed.
C9_NoPauseBeforeFirstNorAfterLast ==
    pc \in {"intra_sleep", "inter_sleep"}
        => nDone >= 1 /\ nDone < Len(unprocessed_articles)

\* C10: an inter-batch pause, of a duration in [5, 15), is taken after a
\* batch iff a backlog item remains after that batch; a finished run over n
\* items has ceil(n / b) - 1 of them, 0 when n = 0.
C10_InterBatchPauseIffMoreBacklog ==
    LET n == Len(unprocessed_articles)
    IN  /\ pc = "inter_sleep" => /\ sleepFor >= 5 * Unit
                                 /\ sleepFor < 15 * Unit
                                 /\ nDone < n
        /\ interTotal = Cardinality({b \in 1 .. batchesEnded : b * BATCH_SIZE < n})
        /\ batchesEnded <= Len(batches)
        /\ LoopOver => /\ batchesEnded = Len(batches)
                       /\ interTotal = (IF n = 0 THEN 0 ELSE CeilDiv(n, BATCH_SIZE) - 1)

C10_Witness ==
    /\ pc = "done"
    /\ Len(unprocessed_articles) = 3
    /\ BATCH_SIZE = 2
    /\ interTotal = 1


-----------------------------------------------------------------------------
(* Properties of the write-back, the payload and the notification dispatch. *)
(* updates lists the write-back attempts of the run in order; dispatched    *)
(* lists the payloads handed to a dispatch function.                        *)

RECURSIVE OkIds(_)
OkIds(us) ==
    IF us = <<>> THEN <<>>
    ELSE (IF Head(us).ok THEN <<Head(us).id>> ELSE <<>>) \o OkIds(Tail(us))

Dispatching == pc \in {"done", "returned"}

\* C11: an item whose write-back fails is left out of the payload, and the run
\* goes on: the write-backs follow the backlog item by item, the payload holds
\* exactly the items whose write-back succeeded, and when the loop is over
\* every item of the backlog has had its write-back attempt.
C11_FailedWriteLeftOutRunGoesOn ==
    /\ Len(updates) = nDone
    /\ Len(updates) <= Len(unprocessed_articles)
    /\ \A n \in 1 .. Len(updates) : updates[n].id = unprocessed_articles[n].id
    /\ ArticleIds(articles_with_summaries) = OkIds(updates)
    /\ LoopOver => Len(updates) = Len(unprocessed_articles)

C11_Witness ==
    /\ pc = "done"
    /\ Len(updates) = 3
    /\ ~updates[1].ok /\ updates[2].ok /\ ~updates[3].ok
    /\ Len(articles_with_summaries) = 1

\* C12: the dispatch happens at most once per run, after every batch has been
\* handled, with the accumulated payload of all batches.
C12_OneDispatchAfterAllBatches ==
    /\ Len(dispatched) <= 1
    /\ slackCalls <= 1 /\ slackSends <= 1 /\ snsPublishes <= 1
    /\ dispatched # <<>> =>
           /\ Dispatching
           /\ nDone = Len(unprocessed_articles)
           /\ Flatten(batches) = unprocessed_articles
           /\ dispatched[1] = articles_with_summaries
           /\ ArticleIds(dispatched[1]) = OkIds(updates)

C12_Witness ==
    /\ pc = "done"
    /\ Len(batches) = 2
    /\ Len(dispatched) = 1
    /\ Len(dispatched[1]) = 3

\* C13: with an empty payload, from an empty backlog or because every
\* write-back failed, no dispatch function is called and no channel is used.
C13_EmptyPayloadNoDispatch ==
    (Dispatching /\ articles_with_summaries = <<>>)
        => /\ dispatched = <<>> /\ published = <<>>
           /\ slackCalls = 0 /\ slackSends = 0 /\ snsPublishes = 0
           /\ notifyResult = "none"

C13_Witness ==
    /\ pc = "done"
    /\ SLACK_WEBHOOK_URL /\ SNS_TOPIC_ARN
    /\ Len(updates) = 2
    /\ articles_with_summaries = <<>>

\* C14: when the webhook is configured and its send fails, and the topic is
\* configured and its publish does not fail, the dispatch reports success and
\* there was exactly one publish, carrying the payload as text and as
\* structured data.
C14_FallbackPublishesOnceBothForms ==
    (Dispatching /\ SLACK_WEBHOOK_URL /\ slackOutcome = "failed"
                 /\ SNS_TOPIC_ARN /\ snsOutcome # "failed")
        => /\ notifyResult = "True"
           /\ snsPublishes = 1
           /\ Len(published) = 1
           /\ published[1].default = [form |-> "text", entries |-> dispatched[1]]
           /\ published[1].lambda = [form |-> "json", entries |-> dispatched[1]]

C14_Witness ==
    /\ pc = "done"
    /\ slackOutcome = "failed"
    /\ snsOutcome = "ok"
    /\ notifyResult = "True"
    /\ Len(articles_with_summaries) = 2

PrimaryAttempted == slackCalls = 1
SecondaryAttempted == snsPublishes = 1
ChannelsAtMostOnce == slackCalls <= 1 /\ slackSends <= 1 /\ snsPublishes <= 1

\* the topic is tried iff it is configured and the webhook is either not
\* configured or was tried and its send failed
SecondaryRule ==
    SecondaryAttempted <=>
        (SNS_TOPIC_ARN /\ (~SLACK_WEBHOOK_URL \/ slackOutcome = "failed"))

\* C15 as stated: with a non-empty payload the webhook is tried iff configured,
\* the topic by SecondaryRule, each at most once, and with neither configured
\* the dispatch reports "not configured".
C15_NeitherConfiguredReported ==
    (Dispatching /\ articles_with_summaries # <<>>)
        => /\ PrimaryAttempted <=> SLACK_WEBHOOK_URL
           /\ SecondaryRule
           /\ ChannelsAtMostOnce
           /\ (~SLACK_WEBHOOK_URL /\ ~SNS_TOPIC_ARN) => notConfigured

\* what lines 461-472 do instead: the same selection rule, and with neither
\* channel configured no dispatch function is called at all, so nothing is
\* reported: neither "not configured" nor a result.
NeitherConfiguredSilent ==
    (Dispatching /\ articles_with_summaries # <<>>)
        => /\ PrimaryAttempted <=> SLACK_WEBHOOK_URL
           /\ SecondaryRule
           /\ ChannelsAtMostOnce
           /\ (~SLACK_WEBHOOK_URL /\ ~SNS_TOPIC_ARN)
                  => /\ dispatched = <<>>
                     /\ notifyResult = "none"
                     /\ ~notConfigured

NeitherConfiguredReached ==
    /\ pc = "done"
    /\ articles_with_summaries # <<>>
    /\ ~SLACK_WEBHOOK_URL /\ ~SNS_TOPIC_ARN
    /\ notifyResult = "none"


-----------------------------------------------------------------------------
(* Properties of the handler's result and of the error texts                *)

\* C16: the returned result does not depend on the notification: whether the
\* dispatch succeeded, failed on every configured channel or was not made, the
\* handler returns status 200 with the count and the list of the items whose
\* write-back succeeded.
C16_ResultIgnoresNotification ==
    pc = "returned"
        => /\ result.returned
           /\ result.statusCode = 200
           /\ ~result.error
           /\ result.articles_processed = Len(OkIds(updates))
           /\ result.articles = OkIds(updates)

C16_Witness ==
    /\ pc = "returned"
    /\ SLACK_WEBHOOK_URL /\ SNS_TOPIC_ARN
    /\ slackOutcome = "failed" /\ snsOutcome = "failed"
    /\ notifyResult = "False"
    /\ result.articles_processed = 2

\* C17 as stated: when the scan of the store failed, the handler returns an
\* overall failure, unlike a run that fetched an empty backlog.
C17_FetchFailureReported ==
    (pc = "returned" /\ scanFailed) => (result.error /\ result.statusCode # 200)

TerminalErrorReturned == pc = "update" /\ summary = ErrorText
ExhaustedReturned == pc = "update" /\ summary = ExhaustedText
LastUpdate == updates'[Len(updates')]
GoesOn == pc' \in {"intra_sleep", "article", "batch_end"} /\ nDone' = nDone + 1

\* C18 as stated: an item whose generation ended in a terminal error never
\* appears in the payload.
C18_TerminalErrorNeverInPayload ==
    \A n \in 1 .. Len(articles_with_summaries) :
        articles_with_summaries[n].summary # ErrorText

\* what lines 438-448 do instead: the terminal error text of an item is handed
\* to one write-back; the item joins the payload with that text iff the
\* write-back succeeded, and the run goes on with the next item without
\* another call of the summarizer for it.
TerminalErrorInPayloadIffWritten ==
    [][TerminalErrorReturned =>
         /\ updates' = Append(updates, LastUpdate)
         /\ LastUpdate.id = batch[j].id
         /\ IF LastUpdate.ok
            THEN articles_with_summaries' =
                     Append(articles_with_summaries,
                            [id |-> batch[j].id, content |-> batch[j].content,
                             summary |-> ErrorText])
            ELSE articles_with_summaries' = articles_with_summaries
         /\ LastUpdate.ok <=> news_table'[batch[j].id].summary = ErrorText
         /\ GoesOn]_vars

TerminalErrorInPayloadReached ==
    /\ pc = "done"
    /\ Len(articles_with_summaries) = 2
    /\ articles_with_summaries[1].summary = ErrorText
    /\ news_table[articles_with_summaries[1].id].summary = ErrorText

\* C19: the retries-exhausted text is a returned value, not a failure of the
\* run: it is handed to the write-back, and when the write succeeds the item
\* holds that text as its summary with processed = true; in both cases the run
\* goes on with the next item and no result is produced yet.
C19_ExhaustedTextWrittenAndProcessed ==
    [][ExhaustedReturned =>
         /\ LastUpdate.id = batch[j].id
         /\ IF LastUpdate.ok
            THEN news_table' =
                     [news_table EXCEPT ![batch[j].id] =
                          [content |-> batch[j].content,
                           summary |-> ExhaustedText,
                           processed |-> TRUE,
                           processed_at |-> TRUE]]
            ELSE news_table' = news_table
         /\ GoesOn
         /\ result' = NoResult]_vars

C19_Witness ==
    /\ pc = "done"
    /\ Len(updates) = 2
    /\ updates[1].ok
    /\ news_table[updates[1].id].summary = ExhaustedText
    /\ news_table[updates[1].id].processed

-----------------------------------------------------------------------------
(* Properties of invocations one after another on the same table            *)

Handled(id) ==
    \/ \E n \in 1 .. Len(unprocessed_articles) : unprocessed_articles[n].id = id
    \/ \E n \in 1 .. Len(batch) : batch[n].id = id
    \/ \E n \in 1 .. Len(updates) : updates[n].id = id
    \/ \E n \in 1 .. Len(articles_with_summaries) : articles_with_summaries[n].id = id

\* C20: over invocations one after another, processed never goes from true
\* back to false, and an item that was processed when an invocation started is
\* neither fetched, nor summarized, nor written by that invocation.
C20_ProcessedIsFinal ==
    /\ [][\A id \in 1 .. Len(news_table) :
              news_table[id].processed => news_table'[id].processed]_vars
    /\ [](\A id \in processedAtStart :
              news_table[id].processed /\ ~Handled(id))

C20_Witness ==
    /\ run = 2
    /\ pc = "returned"
    /\ processedAtStart # {}
    /\ updates # <<>>
    /\ updates[1].ok


-----------------------------------------------------------------------------
(* Properties of two overlapping invocations                                *)

IdsOf(articles) == {articles[n].id : n \in 1 .. Len(articles)}
Occurrences(ids, id) == Cardinality({n \in 1 .. Len(ids) : ids[n] = id})
WritesOf(id) == {n \in 1 .. Len(writes) : writes[n].id = id}
Latest(ns) == CHOOSE n \in ns : \A m \in ns : m <= n
BothLoopsOver ==
    /\ suspended # NotStarted
    /\ LoopOver
    /\ suspended.pc \in {"notify", "done", "returned"}
OkFor(us, id) == \E n \in 1 .. Len(us) : us[n].id = id /\ us[n].ok

\* C21: nothing keeps two overlapping invocations apart.  The store takes
\* every write: an item holds the summary of the latest successful write.  An
\* item fetched by both invocations is summarized once and written once by
\* each of them, and is in the payload of each invocation whose write
\* succeeded.
C21_OverlapProcessesTwice ==
    /\ \A id \in 1 .. Len(news_table) :
           IF WritesOf(id) = {} THEN ~news_table[id].processed
           ELSE /\ news_table[id].processed
                /\ news_table[id].summary = writes[Latest(WritesOf(id))].summary
    /\ BothLoopsOver =>
           \A id \in IdsOf(unprocessed_articles)
                       \cap IdsOf(suspended.unprocessed_articles) :
               /\ Occurrences(calls, id) = 1
               /\ Occurrences(suspended.calls, id) = 1
               /\ Occurrences(ArticleIds(updates), id) = 1
               /\ Occurrences(ArticleIds(suspended.updates), id) = 1
               /\ id \in IdsOf(articles_with_summaries) <=> OkFor(updates, id)
               /\ id \in IdsOf(suspended.articles_with_summaries)
                      <=> OkFor(suspended.updates, id)

\* both invocations fetched item 1 before either wrote it, and both wrote it
C21_Witness ==
    /\ suspended # NotStarted
    /\ pc = "returned" /\ suspended.pc = "returned"
    /\ 1 \in IdsOf(articles_with_summaries)
    /\ 1 \in IdsOf(suspended.articles_with_summaries)
    /\ Cardinality(WritesOf(1)) = 2
    /\ Occurrences(calls, 1) = 1 /\ Occurrences(suspended.calls, 1) = 1
    /\ result.articles = <<1>> /\ suspended.result.articles = <<1>>


-----------------------------------------------------------------------------
(* Properties of the order of the work within one invocation                *)

\* C22: the items are handled one after another in backlog order: the
\* summarizer calls and the write-back attempts each follow the backlog, a
\* call is entered only when every earlier item has had its write-back, each
\* item gets exactly one call and one write-back attempt, and its summary is
\* written at most once.
C22_OneCallOneWriteInOrder ==
    /\ \A n, m \in 1 .. Len(unprocessed_articles) :
           n # m => unprocessed_articles[n].id # unprocessed_articles[m].id
    /\ Len(calls) <= Len(unprocessed_articles)
    /\ \A n \in 1 .. Len(calls) : calls[n] = unprocessed_articles[n].id
    /\ Len(updates) <= Len(calls)
    /\ \A n \in 1 .. Len(updates) : updates[n].id = calls[n]
    /\ Len(calls) - Len(updates) = (IF InCall THEN 1 ELSE 0)
    /\ LoopOver => Len(updates) = Len(unprocessed_articles)
    /\ \A id \in 1 .. Len(news_table) : Cardinality(WritesOf(id)) <= 1

C22_Witness ==
    /\ pc = "done"
    /\ Len(calls) = 3 /\ Len(updates) = 3
    /\ ~updates[1].ok /\ updates[2].ok
    /\ articles_with_summaries[1].summary = ErrorText


\* C23 as stated: the returned result carries both counts, the number of items
\* fetched and the number of items whose write-back succeeded, and the list of
\* the latter.
C23_ReturnsFetchedAndProcessedCounts ==
    pc = "returned"
        => /\ "items_fetched" \in result.keys
           /\ "articles_processed" \in result.keys
           /\ result.articles_processed = Len(OkIds(updates))
           /\ result.articles = OkIds(updates)


-----------------------------------------------------------------------------
(* Properties of the summary block of the two message builders              *)

\* C24: in the block built by send_slack_notification and in the one built by
\* the forwarder, a summary of more than 2900 characters appears as its first
\* 2900 characters followed by "...", and a shorter one appears unchanged.
C24_SummaryCutAt2900 ==
    rendered # NoBlock =>
        LET s == received.text
            t == rendered.text
        IN  IF Len(s) > 2900
            THEN /\ Len(t) = 2900 + Len(TruncationMarker)
                 /\ \A n \in 1 .. 2900 : t[n] = s[n]
                 /\ \A n \in 1 .. Len(TruncationMarker) :
                        t[2900 + n] = TruncationMarker[n]
            ELSE t = s

C24_Witness ==
    /\ rendered.by = "send_slack_notification"
    /\ Len(received.text) = 3500
    /\ Len(rendered.text) = 2903
    /\ rendered.text[2900] = 2900


-----------------------------------------------------------------------------
(* Termination                                                              *)

\* C25 as stated: whatever the backend, the store and the channels do, the
\* invocation reaches its return.
C25_RunTerminates == <>(pc = "returned")

\* what holds instead: every call of the summarizer returns, and the
\* invocation reaches its return when the webhook's server answers
\* (SpecAnswered)
TerminatesWhenSendReturns ==
    /\ <>(pc = "returned")
    /\ (pc = "while") ~> (pc = "update")

\* every call of the summarizer returns, also when the send hangs later
SummarizerReturns == (pc = "while") ~> (pc = "update")

-----------------------------------------------------------------------------
(* The calls and sleeps of one summarizer call, lines 81-181.               *)

\* the backend rate-limited the first r calls and answered the next one
SucceededAfter(r) ==
    /\ Len(outcomes) = r + 1
    /\ \A n \in 1 .. r : outcomes[n] = "rate_limit"
    /\ outcomes[r + 1] = "ok"

\* C26: when the backend rate-limits the first r calls and then succeeds, the
\* call makes r + 1 invoke_model calls, sleeps r times and returns the
\* generated summary; a sleep comes before each retry only, so a call whose
\* every attempt is rate-limited sleeps MAX_RETRIES times, not after the last.
C26_CallsAndSleepsOfRecoveredCall ==
    /\ \A r \in 0 .. MaxRetriesCap :
          (Returned /\ SucceededAfter(r))
              => /\ r <= MAX_RETRIES
                 /\ invokes = r + 1
                 /\ sleeps = r
                 /\ summary = GeneratedText
    /\ (Returned /\ batch[j].content # "" /\ MAX_RETRIES >= 0 /\ AllRateLimited)
          => sleeps = MAX_RETRIES /\ invokes = sleeps + 1
    /\ (pc = "invoke" /\ AllRateLimited) => sleeps = invokes

C26_Witness ==
    /\ Returned
    /\ MaxRetriesCap > 0
    /\ SucceededAfter(MaxRetriesCap)
    /\ sleeps = MaxRetriesCap
    /\ summary = GeneratedText

-----------------------------------------------------------------------------
(* What a write-back leaves in the store, lines 191-234, over invocations   *)
(* one after another (SpecRuns).                                            *)

\* this step is a write-back that returned False
WriteBackFailed ==
    /\ Len(updates') = Len(updates) + 1
    /\ ~updates'[Len(updates')].ok

\* the three fields of a stored item are all unset or all set
FieldsTogether(item) ==
    /\ item.processed <=> item.processed_at
    /\ item.processed <=> (item.summary # Absent)

-----------------------------------------------------------------------------
(* Which failure of send_slack_notification reaches the fallback,           *)
(* lines 238-343.                                                           *)

\* the payload handed to the dispatch holds a summary the block builder
\* cannot measure (len() of a value that is not a string raises, line 292)
BuildFailed ==
    /\ dispatched # <<>>
    /\ \E n \in 1 .. Len(dispatched[1]) : dispatched[1][n].summary.type # "str"

=============================================================================
